---- MODULE Spec2Model ----
(***************************************************************************)
(* Sheetful API (Python port): a REST facade over a Google spreadsheet.    *)
(*                                                                         *)
(* Two implementations live in the repository and both are modelled:       *)
(*   "app"    : src/app/api/sheets.py + src/app/api/utils.py               *)
(*              + src/app/services/sheets.py                               *)
(*   "legacy" : src/main.py + src/sheets_service.py                        *)
(*                                                                         *)
(* The remote store (gspread / Google Sheets) is modelled as a document    *)
(* holding a list of sheets, each with a numeric id, a title and a grid    *)
(* of cells whose physical row 1 is the header row.  A request is a small   *)
(* process that advances one remote call at a time.                        *)
(*                                                                         *)
(* Store abstraction: a cell holds the value last written to it; a sheet   *)
(* has blank rows below its data, so a write below the last data row fills *)
(* the rows in between with empty cells; an append adds rows after the     *)
(* last row.                                                               *)
(***************************************************************************)
EXTENDS Integers, Sequences, FiniteSets, TLC

VARIABLES sheets, grids, apiKey, gc, reqs

vars == <<sheets, grids, apiKey, gc, reqs>>

-----------------------------------------------------------------------------
(* Bounds of the model.                                                    *)

MaxSheets == 2
MaxRows == 2
MaxOffset == 3
MaxCalls == 4

-----------------------------------------------------------------------------
(* Python values: a cell or record value is a string or an integer.        *)

S(s) == <<"str", s>>
N(n) == <<"int", n>>

Digits == <<"0", "1", "2", "3", "4", "5", "6", "7", "8", "9">>

\* str(n) of a non-negative integer, digit by digit.
RECURSIVE IntToStr(_)
IntToStr(n) == IF n < 10 THEN Digits[n + 1]
               ELSE IntToStr(n \div 10) \o Digits[(n % 10) + 1]

\* str(value): a string is itself, an integer is its decimal numeral.
PyStr(v) == IF v[1] = "str" THEN v[2]
            ELSE IF v[2] < 0 THEN "-" \o IntToStr(0 - v[2]) ELSE IntToStr(v[2])

\* int(sheet_id): ok with the value, or ValueError.
ParseInt(tok) ==
    CASE tok = "0"  -> [ok |-> TRUE, v |-> 0]
      [] tok = "1"  -> [ok |-> TRUE, v |-> 1]
      [] tok = "01" -> [ok |-> TRUE, v |-> 1]
      [] tok = "2"  -> [ok |-> TRUE, v |-> 2]
      [] tok = "5"  -> [ok |-> TRUE, v |-> 5]
      [] tok = "-1" -> [ok |-> TRUE, v |-> 0 - 1]
      [] OTHER      -> [ok |-> FALSE, v |-> 0]

\* record.get(key, "")
DictGet(rec, key) == IF key \in DOMAIN rec THEN rec[key] ELSE S("")

Range(seq) == {seq[k] : k \in 1..Len(seq)}

Min(a, b) == IF a < b THEN a ELSE b
Max(a, b) == IF a < b THEN b ELSE a

-----------------------------------------------------------------------------
(* The document's sheet list and the three lookups of gspread.             *)

SheetIds == {0, 1, 2, 5}
SheetTitles == {"1", "5", "Data", "Sheet1"}
Tokens == {"0", "1", "01", "2", "5", "-1", "Data", "zzz"}

SheetProps == [id : SheetIds, title : SheetTitles]

\* Sheet lists of a document: ids and titles are unique within a document.
Documents ==
    {d \in UNION {[1..n -> SheetProps] : n \in 1..MaxSheets} :
        \A a, b \in 1..Len(d) :
            a # b => d[a].id # d[b].id /\ d[a].title # d[b].title}

Found(k) == [exc |-> "", ws |-> k]
Raised(e) == [exc |-> e, ws |-> 0]

\* document.get_worksheet_by_id(id): WorksheetNotFound when no sheet has the id.
get_worksheet_by_id(d, id) ==
    IF \E k \in 1..Len(d) : d[k].id = id
    THEN Found(CHOOSE k \in 1..Len(d) : d[k].id = id)
    ELSE Raised("WorksheetNotFound")

\* document.get_worksheet(index): the sheet list indexed as a Python list
\* (zero-based, a negative index counts from the end); `miss` is the
\* exception an index outside the list raises.
get_worksheet(d, index, miss) ==
    IF 0 <= index /\ index < Len(d) THEN Found(index + 1)
    ELSE IF index < 0 /\ 0 - index <= Len(d) THEN Found(Len(d) + index + 1)
    ELSE Raised(miss)

\* document.worksheet(title): exact title match.
worksheet(d, title) ==
    IF \E k \in 1..Len(d) : d[k].title = title
    THEN Found(CHOOSE k \in 1..Len(d) : d[k].title = title)
    ELSE Raised("WorksheetNotFound")

\* gspread >= 5 documents WorksheetNotFound for get_worksheet; the code
\* catches IndexError.  Both library behaviours are kept.
IndexMissExceptions == {"IndexError", "WorksheetNotFound"}

-----------------------------------------------------------------------------
(* Requests.                                                               *)

Impls == {"app", "legacy"}

NoRecord == [k \in {} |-> ""]

\* x_google_access_token: Optional[str] = Header(None): no header at all,
\* an empty header, or a token.
NoToken == "None"
AccessTokens == {NoToken, "", "ya29"}

IdleReq ==
    [pc |-> "idle", impl |-> "app", op |-> "none", access_token |-> NoToken,
     client |-> "",
     sheet_id |-> "", row_id |-> 0, data |-> NoRecord,
     entry |-> "route", offset |-> 0, limit |-> 1, query |-> NoRecord,
     failAt |-> 0, calls |-> 0, ws |-> 0,
     rows |-> << >>, all_records |-> << >>, headers |-> << >>, i |-> 0,
     writes |-> << >>, appends |-> << >>, pre |-> << >>, status |-> 0,
     body |-> << >>,
     detail |-> [msg |-> "", arg |-> ""]]

\* Mutant: the callers catch the HTTPException with the other exceptions.
ReraisedAs500(status) == 500

\* `except HTTPException: raise` of get_worksheet_from_ids and of every route
\* handler: the status the client gets for an HTTPException of the service.
Reraised(status) == status

\* raise HTTPException(status_code, detail): the request ends.
Respond(r, status, msg, arg) ==
    [r EXCEPT !.pc = "done", !.status = Reraised(status),
              !.detail = [msg |-> msg, arg |-> arg]]

\* The row index as it appears in an error detail.
IntArg(n) == IF n < 0 THEN "-" \o IntToStr(0 - n) ELSE IntToStr(n)

\* One more remote call is made; it fails when it is the failAt-th call.
Called(r) == [r EXCEPT !.calls = r.calls + 1]
Faulty(r) == r.failAt = r.calls + 1

\* _get_client: a client from the request's token, else from the static
\* key, else the 401 of "no valid authentication method".
\* `if access_token:` -- None and the empty string are false.
Truthy(access_token) == access_token \notin {NoToken, ""}

\* Mutant: the static key, when configured, is preferred to the token.
_get_client_key_first(access_token, key) ==
    IF key THEN "api_key" ELSE IF Truthy(access_token) THEN "oauth" ELSE "401"

_get_client(access_token, key) ==
    IF Truthy(access_token) THEN "oauth" ELSE IF key THEN "api_key" ELSE "401"

\* The field of GoogleSheetsService after __init__: `self.gc = None`.
ServiceInit == "None"

\* Mutant: the service keeps the client it built.
self_gc_cached(field, client) == IF client = "" THEN field ELSE client

\* The field gc after _get_client: the client is a local that is returned,
\* never assigned to self.gc.
self_gc(field, client) == field

\* Mutant: the document is not opened; the request goes on to the lookup.
get_document_reused(r, key) == [r EXCEPT !.pc = "by_id"]

\* get_document: every exception of its body, the 401 of _get_client
\* included, is caught by `except Exception` and becomes a 400.
get_document(r, key) ==
    LET client == _get_client(r.access_token, key)
        c == [Called(r) EXCEPT !.client = client]
    IN IF client = "401"
       THEN Respond(r, 400, "Cannot access Google document", "doc")
       ELSE IF Faulty(r)
       THEN Respond(c, 400, "Cannot access Google document", "doc")
       ELSE [c EXCEPT !.pc = "by_id"]

\* The status get_sheet gives every exception of its body.
SheetNotFoundStatus == 404

\* Mutant: the catch-all of get_sheet answers 500 and drops the token.
SheetNotFoundAs500(r) == Respond(r, 500, "Internal server error", "")

SheetNotFound(r) == Respond(r, SheetNotFoundStatus, "Sheet not found", r.sheet_id)

\* Mutant: the positional index is tried before the numeric id.
get_sheet_index_first(r, d) ==
    IF ~ParseInt(r.sheet_id).ok THEN [r EXCEPT !.pc = "by_title"]
    ELSE IF Faulty(r) THEN SheetNotFound(Called(r))
    ELSE LET got == get_worksheet(d, ParseInt(r.sheet_id).v, "IndexError")
         IN IF got.exc = ""
            THEN [Called(r) EXCEPT !.pc = "resolved", !.ws = got.ws]
            ELSE [Called(r) EXCEPT !.pc = "by_index"]

\* Mutant: WorksheetNotFound of the id lookup is fatal.
get_sheet_id_fatal(r, d) ==
    IF ~ParseInt(r.sheet_id).ok THEN [r EXCEPT !.pc = "by_title"]
    ELSE IF Faulty(r) THEN SheetNotFound(Called(r))
    ELSE LET got == get_worksheet_by_id(d, ParseInt(r.sheet_id).v)
         IN IF got.exc = ""
            THEN [Called(r) EXCEPT !.pc = "resolved", !.ws = got.ws]
            ELSE SheetNotFound(Called(r))

\* get_sheet, first attempt: int(sheet_id) and get_worksheet_by_id.
get_sheet_by_id(r, d) ==
    IF ~ParseInt(r.sheet_id).ok THEN [r EXCEPT !.pc = "by_title"]
    ELSE IF Faulty(r) THEN SheetNotFound(Called(r))
    ELSE LET got == get_worksheet_by_id(d, ParseInt(r.sheet_id).v)
         IN IF got.exc = ""
            THEN [Called(r) EXCEPT !.pc = "resolved", !.ws = got.ws]
            ELSE [Called(r) EXCEPT !.pc = "by_index"]

\* get_sheet, second attempt: int(sheet_id) and get_worksheet; only
\* ValueError and IndexError fall through to the title lookup.
get_sheet_by_index(r, d, miss) ==
    IF Faulty(r) THEN SheetNotFound(Called(r))
    ELSE LET got == get_worksheet(d, ParseInt(r.sheet_id).v, miss)
         IN IF got.exc = ""
            THEN [Called(r) EXCEPT !.pc = "resolved", !.ws = got.ws]
            ELSE IF got.exc = "IndexError"
            THEN [Called(r) EXCEPT !.pc = "by_title"]
            ELSE SheetNotFound(Called(r))

\* get_sheet, third attempt: document.worksheet(sheet_id).
get_sheet_by_title(r, d) ==
    IF Faulty(r) THEN SheetNotFound(Called(r))
    ELSE LET got == worksheet(d, r.sheet_id)
         IN IF got.exc = ""
            THEN [Called(r) EXCEPT !.pc = "resolved", !.ws = got.ws]
            ELSE SheetNotFound(Called(r))

-----------------------------------------------------------------------------
(* The grid of a sheet and the record view of it.                          *)

\* All mappings from a subset of `keys` to `vals` (a JSON object, a filter).
Maps(keys, vals) == UNION {[K -> vals] : K \in SUBSET keys}

IsUnique(seq) == \A a, b \in 1..Len(seq) : a # b => seq[a] # seq[b]

\* dict(zip(keys, row)): a later column of the same name overwrites.
ToRecord(keys, row) ==
    [h \in Range(keys) |->
        row[CHOOSE k \in 1..Len(keys) :
                /\ keys[k] = h
                /\ \A m \in 1..Len(keys) : keys[m] = h => m <= k]]

\* worksheet.get_all_records(): one record per row below the header row;
\* gspread refuses a header row that repeats a name.
get_all_records(grid) ==
    IF ~IsUnique(grid[1]) THEN [exc |-> "GSpreadException", recs |-> << >>]
    ELSE [exc |-> "",
          recs |-> [k \in 1..(Len(grid) - 1) |-> ToRecord(grid[1], grid[k + 1])]]

\* worksheet.row_values(1)
row_values(grid) == grid[1]

\* worksheet.update_cell(row, col, value) on a grid: rows and columns are
\* 1-based; a row or column below 1 is no cell (IncorrectCellLabel).
CellExists(grid, row, col) ==
    /\ 1 <= row
    /\ 1 <= col /\ col <= Len(grid[1])

\* The grid with blank rows down to physical row `row`.
PadTo(grid, row) ==
    [k \in 1..Max(Len(grid), row) |->
        IF k <= Len(grid) THEN grid[k] ELSE [c \in 1..Len(grid[1]) |-> S("")]]

\* (The header row holds names: a value written there is kept as its
\* string form, which is what row_values(1) returns for it.)
update_cell(grid, row, col, value) ==
    [PadTo(grid, row) EXCEPT
        ![row] = [@ EXCEPT ![col] = IF row = 1 THEN PyStr(value) ELSE value]]

\* worksheet.append_row / append_rows: the rows are added after the last row.
append_rows(grid, values) == grid \o values

-----------------------------------------------------------------------------
(* Query engine: _apply_filters and the pagination slice.                  *)

\* Mutant: the record's value is compared without str().
RecordMatchesRaw(record, filters) ==
    \A key \in DOMAIN filters : DictGet(record, key) = S(filters[key])

\* The loop body of _apply_filters: every key's str(record.get(key, ""))
\* equals str(value).
RecordMatches(record, filters) ==
    \A key \in DOMAIN filters :
        PyStr(DictGet(record, key)) = PyStr(S(filters[key]))

RECURSIVE _apply_filters(_, _)
_apply_filters(records, filters) ==
    IF records = << >> THEN << >>
    ELSE LET rest == _apply_filters(Tail(records), filters)
         IN IF RecordMatches(Head(records), filters)
            THEN <<Head(records)>> \o rest
            ELSE rest

\* seq[start:end] of Python, negative bounds included.
PyBound(n, len) == IF n < 0 THEN Max(len + n, 0) ELSE Min(n, len)

PySlice(seq, start, end) ==
    LET a == PyBound(start, Len(seq))
        b == PyBound(end, Len(seq))
    IN IF a < b THEN SubSeq(seq, a + 1, b) ELSE << >>

\* Mutant: the slice is taken before the filter is applied.
QuerySliceFirst(all_records, query, offset, limit) ==
    LET page == PySlice(all_records, offset, offset + limit)
    IN IF DOMAIN query # {} THEN _apply_filters(page, query) ELSE page

\* get_sheet_rows after the read: filter when a query is given, then slice.
QueryRecords(all_records, query, offset, limit) ==
    LET filtered == IF DOMAIN query # {} THEN _apply_filters(all_records, query)
                    ELSE all_records
    IN PySlice(filtered, offset, offset + limit)

-----------------------------------------------------------------------------
(* Core operations of the service, one remote call per step.               *)

Ok(r, body) == [r EXCEPT !.pc = "done", !.status = 200, !.body = body]

\* Mutant: a failed read is attempted again.
get_sheet_rows_retry(r, grid) ==
    IF Faulty(r) THEN Called(r)
    ELSE IF get_all_records(grid).exc # ""
    THEN Respond(Called(r), 500, "Error retrieving sheet rows", "")
    ELSE LET all_records == get_all_records(grid).recs
         IN [Ok(Called(r), QueryRecords(all_records, r.query, r.offset, r.limit))
                EXCEPT !.all_records = all_records]

\* get_sheet_rows: any exception of the read becomes a 500.
get_sheet_rows(r, grid) ==
    IF Faulty(r) \/ get_all_records(grid).exc # ""
    THEN Respond(Called(r), 500, "Error retrieving sheet rows", "")
    ELSE LET all_records == get_all_records(grid).recs
         IN [Ok(Called(r), QueryRecords(all_records, r.query, r.offset, r.limit))
                EXCEPT !.all_records = all_records]

\* A list value of a response body.
Li(seq) == <<"list", seq>>

\* get_sheet_info: the properties of the worksheet and its header row, the
\* one remote call (row_count and col_count, the physical size of the
\* grid, are left out).
get_sheet_info(r, d, grid) ==
    IF Faulty(r) THEN Respond(Called(r), 500, "Error getting sheet info", "")
    ELSE Ok(Called(r),
            <<[sheetId |-> N(d[r.ws].id), title |-> S(d[r.ws].title),
               index |-> N(r.ws - 1), headerValues |-> Li(row_values(grid)),
               sheetType |-> S("GRID"), hidden |-> <<"bool", FALSE>>,
               rightToLeft |-> <<"bool", FALSE>>]>>)

\* The row check of app/services/sheets.py.
RowMissingApp(row_id, n) == row_id >= n \/ row_id < 0

\* The row check of sheets_service.py.
RowMissingLegacy(row_id, n) == row_id >= n

RowMissing(impl, row_id, n) ==
    IF impl = "app" THEN RowMissingApp(row_id, n) ELSE RowMissingLegacy(row_id, n)

RowNotFound(r) == Respond(r, 404, "Row not found", IntArg(r.row_id))

\* Mutant: inside update_row the row is taken from the records of the check.
get_row_stale(r, grid) ==
    LET all_records == IF r.all_records # << >> THEN r.all_records
                       ELSE get_all_records(grid).recs
        n == Len(all_records)
        c == Called(r)
    IN IF RowMissing(r.impl, r.row_id, n) \/ r.row_id < 0 THEN RowNotFound(c)
       ELSE Ok(c, <<all_records[r.row_id + 1]>>)

\* Mutant: get_row writes the row back before it answers.
get_row_touch(r, grid) ==
    [Respond(Called(r), 200, "", "") EXCEPT
        !.writes = <<[row |-> r.row_id + 2, col |-> 1, value |-> S("")]>>]

\* get_row: read all records, check the index, return all_records[row_id]
\* (a Python index: negative counts from the end, IndexError outside).
get_row(r, grid) ==
    IF Faulty(r) \/ get_all_records(grid).exc # ""
    THEN Respond(Called(r), 500, "Error retrieving row", "")
    ELSE LET all_records == get_all_records(grid).recs
             n == Len(all_records)
             c == Called(r)
         IN IF RowMissing(r.impl, r.row_id, n) THEN RowNotFound(c)
            ELSE IF r.row_id >= 0 THEN Ok(c, <<all_records[r.row_id + 1]>>)
            ELSE IF 0 - r.row_id <= n THEN Ok(c, <<all_records[n + r.row_id + 1]>>)
            ELSE Respond(c, 500, "Error retrieving row", "")

\* update_row, the first read: verify the row exists.
update_row_check(r, grid) ==
    IF Faulty(r) \/ get_all_records(grid).exc # ""
    THEN Respond(Called(r), 500, "Error updating row", "")
    ELSE LET all_records == get_all_records(grid).recs
             c == [Called(r) EXCEPT !.all_records = all_records]
         IN IF RowMissing(r.impl, r.row_id, Len(all_records)) THEN RowNotFound(c)
            ELSE [c EXCEPT !.pc = "headers"]

\* Mutant: the header row is not counted.
ActualRowNumberOffByOne(row_id) == row_id + 1

\* actual_row_number = row_id + 2
ActualRowNumber(row_id) == row_id + 2

\* The next loop index (1-based column) after `i` whose header is in data;
\* 0 when the loop is over.
NextColumn(headers, data, i) ==
    IF \E j \in (i + 1)..Len(headers) : headers[j] \in DOMAIN data
    THEN CHOOSE j \in (i + 1)..Len(headers) :
            /\ headers[j] \in DOMAIN data
            /\ \A m \in (i + 1)..(j - 1) : headers[m] \notin DOMAIN data
    ELSE 0

\* Mutant: with no key to write, the record of the first read is echoed
\* instead of being read again.
update_row_headers_echo(r, grid) ==
    IF Faulty(r) THEN Respond(Called(r), 500, "Error updating row", "")
    ELSE LET headers == row_values(grid)
         IN IF NextColumn(headers, r.data, 0) = 0
            THEN Ok(Called(r), <<r.all_records[r.row_id + 1]>>)
            ELSE [Called(r) EXCEPT !.headers = headers,
                     !.i = NextColumn(headers, r.data, 0), !.pc = "cells"]

\* update_row: headers = worksheet.row_values(1)
update_row_headers(r, grid) ==
    IF Faulty(r) THEN Respond(Called(r), 500, "Error updating row", "")
    ELSE LET headers == row_values(grid)
         IN [Called(r) EXCEPT !.headers = headers,
                !.i = NextColumn(headers, r.data, 0),
                !.pc = IF NextColumn(headers, r.data, 0) = 0 THEN "reread"
                       ELSE "cells"]

\* The cell the loop writes at column index i (enumerate is 0-based, the
\* model's i is 1-based: column i + 1 of the code is column i here).
CellWrite(r) ==
    [row |-> ActualRowNumber(r.row_id), col |-> r.i, value |-> r.data[r.headers[r.i]]]

\* Mutant: a failed write leaves the request as if it had written nothing.
update_row_cell_undone(r, grid) ==
    IF Faulty(r) \/ ~CellExists(grid, CellWrite(r).row, CellWrite(r).col)
    THEN [Respond(Called(r), 500, "Error updating row", "") EXCEPT !.writes = << >>]
    ELSE [Called(r) EXCEPT !.writes = Append(r.writes, CellWrite(r)),
             !.i = NextColumn(r.headers, r.data, r.i),
             !.pc = IF NextColumn(r.headers, r.data, r.i) = 0 THEN "reread"
                    ELSE "cells"]

\* update_row: one worksheet.update_cell of the loop; the request record
\* after it.  (The grid is changed by the action.)
update_row_cell(r, grid) ==
    IF Faulty(r) \/ ~CellExists(grid, CellWrite(r).row, CellWrite(r).col)
    THEN Respond(Called(r), 500, "Error updating row", "")
    ELSE [Called(r) EXCEPT !.writes = Append(r.writes, CellWrite(r)),
             !.i = NextColumn(r.headers, r.data, r.i),
             !.pc = IF NextColumn(r.headers, r.data, r.i) = 0 THEN "reread"
                    ELSE "cells"]

\* [data.get(header, "") for header in headers]
RowData(headers, data) == [j \in 1..Len(headers) |-> DictGet(data, headers[j])]

\* An append as the store receives it: the physical row the first of the
\* rows lands on, and the rows.
AppendOf(grid, values) == [at |-> Len(grid) + 1, values |-> values]

\* create_row: headers = worksheet.row_values(1)
create_row_headers(r, grid) ==
    IF Faulty(r) THEN Respond(Called(r), 500, "Error creating row", "")
    ELSE [Called(r) EXCEPT !.headers = row_values(grid), !.pc = "append"]

\* create_row: worksheet.append_row(row_data); the request record after
\* it.  (The grid is changed by the action.)
create_row_append(r, grid) ==
    IF Faulty(r) THEN Respond(Called(r), 500, "Error creating row", "")
    ELSE [Called(r) EXCEPT
             !.appends = Append(r.appends,
                                AppendOf(grid, <<RowData(r.headers, r.data)>>)),
             !.pc = "reread"]

\* Mutant: the record of the row the request itself appended is returned.
create_row_reread_own(r, grid) ==
    IF Faulty(r) \/ get_all_records(grid).exc # ""
    THEN Respond(Called(r), 500, "Error creating row", "")
    ELSE Ok([Called(r) EXCEPT !.all_records = get_all_records(grid).recs],
            <<ToRecord(r.headers, r.appends[1].values[1])>>)

\* create_row: all_records = worksheet.get_all_records() and the last
\* record of it; on no record at all app/services/sheets.py returns {} and
\* sheets_service.py fails on all_records[-1].
create_row_reread(r, grid) ==
    IF Faulty(r) \/ get_all_records(grid).exc # ""
    THEN Respond(Called(r), 500, "Error creating row", "")
    ELSE LET all_records == get_all_records(grid).recs
             c == [Called(r) EXCEPT !.all_records = all_records]
         IN IF all_records # << >> THEN Ok(c, <<all_records[Len(all_records)]>>)
            ELSE IF r.impl = "app" THEN Ok(c, <<NoRecord>>)
            ELSE Respond(c, 500, "Error creating row", "")

\* The bulk update loops, flattened: position pos stands for the mapping
\* i = (pos - 1) div width and the column j = (pos - 1) mod width (both
\* zero-based as in the code).
BulkI(headers, pos) == (pos - 1) \div Len(headers)
BulkJ(headers, pos) == (pos - 1) % Len(headers)

\* The next position after pos whose header is a key of its mapping; 0
\* when both loops are over.
NextBulkCell(headers, rows, pos) ==
    LET hit(q) == headers[BulkJ(headers, q) + 1] \in DOMAIN rows[BulkI(headers, q) + 1]
        last == Len(rows) * Len(headers)
    IN IF \E q \in (pos + 1)..last : hit(q)
       THEN CHOOSE q \in (pos + 1)..last :
               hit(q) /\ \A m \in (pos + 1)..(q - 1) : ~hit(m)
       ELSE 0

\* Mutant: every mapping of the batch goes to the start row.
BulkActualRowNumberStart(start_row_id, i) == start_row_id + 2

\* actual_row_number = start_row_id + i + 2
BulkActualRowNumber(start_row_id, i) == start_row_id + i + 2

\* worksheet.update_cell(actual_row_number, j + 1, row_data[header])
BulkCellWrite(r) ==
    [row |-> BulkActualRowNumber(r.row_id, BulkI(r.headers, r.i)),
     col |-> BulkJ(r.headers, r.i) + 1,
     value |-> r.rows[BulkI(r.headers, r.i) + 1][r.headers[BulkJ(r.headers, r.i) + 1]]]

B(b) == <<"bool", b>>

\* The body of a successful bulk request: BulkOperationResponse in
\* app/api/sheets.py, a message alone in main.py.
BulkResponse(impl, verb, n) ==
    IF impl = "app"
    THEN [message |-> S("Successfully " \o verb \o " " \o IntToStr(n) \o " rows"),
          affected_rows |-> N(n), success |-> B(TRUE)]
    ELSE [message |-> S("Successfully " \o verb \o " " \o IntToStr(n) \o " rows")]

\* Mutant: the count is the number of rows that received a write.
update_rows_bulk_return_written(r) ==
    Ok(r, <<BulkResponse(r.impl, "updated",
                         Cardinality({r.writes[k].row : k \in 1..Len(r.writes)}))>>)

\* return len(data), and the route's response for it.
update_rows_bulk_return(r) == Ok(r, <<BulkResponse(r.impl, "updated", Len(r.rows))>>)

\* update_rows_bulk: headers = worksheet.row_values(1)
update_rows_bulk_headers(r, grid) ==
    IF Faulty(r) THEN Respond(Called(r), 500, "Error updating rows in bulk", "")
    ELSE LET headers == row_values(grid)
             c == [Called(r) EXCEPT !.headers = headers,
                      !.i = NextBulkCell(headers, r.rows, 0)]
         IN IF c.i = 0 THEN update_rows_bulk_return(c)
            ELSE [c EXCEPT !.pc = "cells"]

\* Mutant: a failed update_cell is skipped and the loops go on.
update_rows_bulk_cell_skip(r, grid) ==
    LET ok == ~Faulty(r) /\ CellExists(grid, BulkCellWrite(r).row, BulkCellWrite(r).col)
        c == [Called(r) EXCEPT
                 !.writes = IF ok THEN Append(r.writes, BulkCellWrite(r)) ELSE r.writes,
                 !.i = NextBulkCell(r.headers, r.rows, r.i)]
    IN IF c.i = 0 THEN update_rows_bulk_return(c)
       ELSE [c EXCEPT !.pc = "cells"]

\* update_rows_bulk: one worksheet.update_cell of the loops; the request
\* record after it.  (The grid is changed by the action.)
update_rows_bulk_cell(r, grid) ==
    IF Faulty(r) \/ ~CellExists(grid, BulkCellWrite(r).row, BulkCellWrite(r).col)
    THEN Respond(Called(r), 500, "Error updating rows in bulk", "")
    ELSE LET c == [Called(r) EXCEPT !.writes = Append(r.writes, BulkCellWrite(r)),
                      !.i = NextBulkCell(r.headers, r.rows, r.i)]
         IN IF c.i = 0 THEN update_rows_bulk_return(c)
            ELSE [c EXCEPT !.pc = "cells"]

\* create_rows_bulk: headers = worksheet.row_values(1)
create_rows_bulk_headers(r, grid) ==
    IF Faulty(r) THEN Respond(Called(r), 500, "Error creating rows in bulk", "")
    ELSE [Called(r) EXCEPT !.headers = row_values(grid), !.pc = "append"]

\* Mutant: the rows are built in reverse input order.
RowsDataReversed(headers, rows) ==
    [k \in 1..Len(rows) |-> RowData(headers, rows[Len(rows) + 1 - k])]

\* rows_data: one row per mapping, in input order.
RowsData(headers, rows) == [k \in 1..Len(rows) |-> RowData(headers, rows[k])]

\* create_rows_bulk: worksheet.append_rows(rows_data), return len(data) and
\* the route's response for it.  (The grid is changed by the action.)
create_rows_bulk_append(r, grid) ==
    IF Faulty(r) THEN Respond(Called(r), 500, "Error creating rows in bulk", "")
    ELSE Ok([Called(r) EXCEPT
                !.appends = Append(r.appends,
                                   AppendOf(grid, RowsData(r.headers, r.rows)))],
            <<BulkResponse(r.impl, "created", Len(r.rows))>>)

-----------------------------------------------------------------------------
(* Entry points: the route handlers' parameter validation.                 *)

LimitMin == 1
LimitMax == 1000

\* Query(0, ...) and Query(100, ...): the values of omitted parameters.
DefaultOffset == 0
DefaultLimit == 100

\* A query parameter as the handler receives it.
Param(given, v, default) == IF given THEN v ELSE default

\* The ops whose path carries a row index.
RowOps == {"get_row", "update_row", "update_rows_bulk"}

\* Query(0, ge=0), Query(100, ge=1, le=1000) and Path(..., ge=0) of
\* app/api/sheets.py; main.py declares no constraint.
RouteAccepts(inp) ==
    \/ inp.impl = "legacy"
    \/ /\ inp.op = "rows" => /\ inp.offset >= 0
                             /\ LimitMin <= inp.limit /\ inp.limit <= LimitMax
       /\ inp.op \in RowOps => inp.row_id >= 0

\* SheetGetRowsOptions of app/models.py holds only offset >= 0 and a limit
\* in [1, 1000]; models.py of the legacy entry point holds any integers.
OptionsValid(inp) ==
    \/ inp.impl = "legacy"
    \/ inp.op # "rows"
    \/ inp.offset >= 0 /\ LimitMin <= inp.limit /\ inp.limit <= LimitMax

\* A request as it starts: through a route ("route"), or by a caller of the
\* service functions ("service"); the routes never pass a query.
\* (`pre` remembers the store as the request found it; the code does not
\* read it.)
Accept(inp, store) ==
    IF inp.entry = "route" /\ ~RouteAccepts(inp)
    THEN [Respond([IdleReq EXCEPT !.impl = inp.impl, !.entry = inp.entry,
                      !.op = inp.op, !.row_id = inp.row_id,
                      !.offset = inp.offset, !.limit = inp.limit],
                  422, "validation error", "") EXCEPT !.status = 422]
    ELSE [IdleReq EXCEPT !.pc = "open", !.impl = inp.impl, !.entry = inp.entry,
             !.op = inp.op, !.access_token = inp.access_token,
             !.sheet_id = inp.sheet_id,
             !.failAt = inp.failAt, !.row_id = inp.row_id, !.data = inp.data,
             !.rows = inp.rows,
             !.offset = inp.offset, !.limit = inp.limit, !.query = inp.query,
             !.pre = store]

-----------------------------------------------------------------------------
(* Actions.  p is the request that takes the step.                         *)

Procs == DOMAIN reqs

Grid(p) == grids[reqs[p].ws]

Receive(inputs) ==
    \E p \in Procs :
        /\ reqs[p].pc = "idle"
        /\ \E inp \in inputs :
              /\ inp.entry = "route" => inp.query = NoRecord
              /\ inp.entry = "service" => OptionsValid(inp)
              /\ reqs' = [reqs EXCEPT ![p] = Accept(inp, grids)]
        /\ UNCHANGED <<sheets, grids, apiKey, gc>>

OpenDocument ==
    \E p \in Procs :
        /\ reqs[p].pc = "open"
        /\ reqs' = [reqs EXCEPT ![p] = get_document(reqs[p], apiKey)]
        /\ gc' = self_gc(gc, reqs'[p].client)
        /\ UNCHANGED <<sheets, grids, apiKey>>

GetSheetById ==
    \E p \in Procs :
        /\ reqs[p].pc = "by_id"
        /\ reqs' = [reqs EXCEPT ![p] = get_sheet_by_id(reqs[p], sheets)]
        /\ UNCHANGED <<sheets, grids, apiKey, gc>>

GetSheetByIndex ==
    \E p \in Procs, miss \in IndexMissExceptions :
        /\ reqs[p].pc = "by_index"
        /\ reqs' = [reqs EXCEPT ![p] = get_sheet_by_index(reqs[p], sheets, miss)]
        /\ UNCHANGED <<sheets, grids, apiKey, gc>>

GetSheetByTitle ==
    \E p \in Procs :
        /\ reqs[p].pc = "by_title"
        /\ reqs' = [reqs EXCEPT ![p] = get_sheet_by_title(reqs[p], sheets)]
        /\ UNCHANGED <<sheets, grids, apiKey, gc>>

GetSheetRows ==
    \E p \in Procs :
        /\ reqs[p].pc = "resolved" /\ reqs[p].op = "rows"
        /\ reqs' = [reqs EXCEPT ![p] = get_sheet_rows(reqs[p], Grid(p))]
        /\ UNCHANGED <<sheets, grids, apiKey, gc>>

GetSheetInfo ==
    \E p \in Procs :
        /\ reqs[p].pc = "resolved" /\ reqs[p].op = "info"
        /\ reqs' = [reqs EXCEPT ![p] = get_sheet_info(reqs[p], sheets, Grid(p))]
        /\ UNCHANGED <<sheets, grids, apiKey, gc>>

GetRow ==
    \E p \in Procs :
        /\ reqs[p].pc = "resolved" /\ reqs[p].op = "get_row"
        /\ reqs' = [reqs EXCEPT ![p] = get_row(reqs[p], Grid(p))]
        /\ UNCHANGED <<sheets, grids, apiKey, gc>>

UpdateRowCheck ==
    \E p \in Procs :
        /\ reqs[p].pc = "resolved" /\ reqs[p].op = "update_row"
        /\ reqs' = [reqs EXCEPT ![p] = update_row_check(reqs[p], Grid(p))]
        /\ UNCHANGED <<sheets, grids, apiKey, gc>>

UpdateRowHeaders ==
    \E p \in Procs :
        /\ reqs[p].pc = "headers" /\ reqs[p].op = "update_row"
        /\ reqs' = [reqs EXCEPT ![p] = update_row_headers(reqs[p], Grid(p))]
        /\ UNCHANGED <<sheets, grids, apiKey, gc>>

\* One update_cell of update_row's loop: the cell is written unless the
\* call fails.
UpdateRowCell ==
    \E p \in Procs :
        LET r == reqs[p]
            after == update_row_cell(r, Grid(p))
        IN /\ r.pc = "cells" /\ r.op = "update_row"
           /\ reqs' = [reqs EXCEPT ![p] = after]
           /\ grids' = IF Len(after.writes) > Len(r.writes)
                       THEN [grids EXCEPT ![r.ws] =
                               update_cell(@, CellWrite(r).row, CellWrite(r).col,
                                           CellWrite(r).value)]
                       ELSE grids
           /\ UNCHANGED <<sheets, apiKey, gc>>

\* return await self.get_row(worksheet, row_id)
UpdateRowReread ==
    \E p \in Procs :
        /\ reqs[p].pc = "reread" /\ reqs[p].op = "update_row"
        /\ reqs' = [reqs EXCEPT ![p] = get_row(reqs[p], Grid(p))]
        /\ UNCHANGED <<sheets, grids, apiKey, gc>>

\* create_row, step by step.
CreateRowHeaders ==
    \E p \in Procs :
        /\ reqs[p].pc = "resolved" /\ reqs[p].op = "create_row"
        /\ reqs' = [reqs EXCEPT ![p] = create_row_headers(reqs[p], Grid(p))]
        /\ UNCHANGED <<sheets, grids, apiKey, gc>>

CreateRowAppend ==
    \E p \in Procs :
        LET r == reqs[p]
            after == create_row_append(r, Grid(p))
        IN /\ r.pc = "append" /\ r.op = "create_row"
           /\ reqs' = [reqs EXCEPT ![p] = after]
           /\ grids' = IF Len(after.appends) > Len(r.appends)
                       THEN [grids EXCEPT ![r.ws] =
                               append_rows(@, after.appends[Len(after.appends)].values)]
                       ELSE grids
           /\ UNCHANGED <<sheets, apiKey, gc>>

CreateRowReread ==
    \E p \in Procs :
        /\ reqs[p].pc = "reread" /\ reqs[p].op = "create_row"
        /\ reqs' = [reqs EXCEPT ![p] = create_row_reread(reqs[p], Grid(p))]
        /\ UNCHANGED <<sheets, grids, apiKey, gc>>

\* update_rows_bulk, step by step.
BulkUpdateHeaders ==
    \E p \in Procs :
        /\ reqs[p].pc = "resolved" /\ reqs[p].op = "update_rows_bulk"
        /\ reqs' = [reqs EXCEPT ![p] = update_rows_bulk_headers(reqs[p], Grid(p))]
        /\ UNCHANGED <<sheets, grids, apiKey, gc>>

BulkUpdateCell ==
    \E p \in Procs :
        LET r == reqs[p]
            after == update_rows_bulk_cell(r, Grid(p))
        IN /\ r.pc = "cells" /\ r.op = "update_rows_bulk"
           /\ reqs' = [reqs EXCEPT ![p] = after]
           /\ grids' = IF Len(after.writes) > Len(r.writes)
                       THEN [grids EXCEPT ![r.ws] =
                               update_cell(@, BulkCellWrite(r).row,
                                           BulkCellWrite(r).col, BulkCellWrite(r).value)]
                       ELSE grids
           /\ UNCHANGED <<sheets, apiKey, gc>>

\* create_rows_bulk, step by step.
BulkCreateHeaders ==
    \E p \in Procs :
        /\ reqs[p].pc = "resolved" /\ reqs[p].op = "create_rows_bulk"
        /\ reqs' = [reqs EXCEPT ![p] = create_rows_bulk_headers(reqs[p], Grid(p))]
        /\ UNCHANGED <<sheets, grids, apiKey, gc>>

BulkCreateAppend ==
    \E p \in Procs :
        LET r == reqs[p]
            after == create_rows_bulk_append(r, Grid(p))
        IN /\ r.pc = "append" /\ r.op = "create_rows_bulk"
           /\ reqs' = [reqs EXCEPT ![p] = after]
           /\ grids' = IF Len(after.appends) > Len(r.appends)
                       THEN [grids EXCEPT ![r.ws] =
                               append_rows(@, after.appends[Len(after.appends)].values)]
                       ELSE grids
           /\ UNCHANGED <<sheets, apiKey, gc>>

-----------------------------------------------------------------------------
(* Sheet resolution alone: every document, every token, both entry points. *)

HeaderOnly == << <<"name">> >>

NoInput ==
    [impl |-> "app", entry |-> "route", op |-> "info", access_token |-> "ya29",
     sheet_id |-> "0", failAt |-> 0, row_id |-> 0, data |-> NoRecord,
     rows |-> << >>, offset |-> DefaultOffset, limit |-> DefaultLimit,
     query |-> NoRecord]

ResolveInputs ==
    {[NoInput EXCEPT !.impl = impl, !.access_token = token, !.sheet_id = tok,
                     !.failAt = fail] :
        impl \in Impls, token \in {NoToken, "ya29"}, tok \in Tokens,
        fail \in 0..MaxCalls}

InitResolve ==
    /\ sheets \in Documents
    /\ gc = ServiceInit
    /\ grids = [k \in 1..Len(sheets) |-> HeaderOnly]
    /\ apiKey \in BOOLEAN
    /\ reqs = [p \in {1} |-> IdleReq]

NextResolve ==
    \/ Receive(ResolveInputs)
    \/ OpenDocument
    \/ GetSheetById
    \/ GetSheetByIndex
    \/ GetSheetByTitle

SpecResolve == InitResolve /\ [][NextResolve]_vars

-----------------------------------------------------------------------------
(* Listing with filters and pagination (SpecQuery): get_sheet_rows on every *)
(* one-column sheet, called with every filter, offset and limit.            *)

TwoSheets == <<[id |-> 5, title |-> "Data"], [id |-> 0, title |-> "Sheet1"]>>

QueryValues == {N(1), S(""), S("a"), S("A"), S("ab")}
QueryFilters == Maps({"status", "zip"}, {"1", "a", ""})
QueryLimits == {LimitMin, 2, LimitMax}

\* All grids with the given header row and up to n data rows over vals.
GridsOf(header, vals, n) ==
    {<<header>> \o rows :
        rows \in UNION {[1..m -> [1..Len(header) -> vals]] : m \in 0..n}}

QueryInputs ==
    {[NoInput EXCEPT !.impl = impl, !.entry = "service", !.op = "rows",
                     !.offset = offset, !.limit = limit, !.query = query] :
        impl \in Impls, offset \in 0..MaxOffset, limit \in QueryLimits,
        query \in QueryFilters}

InitQuery ==
    /\ sheets = TwoSheets
    /\ gc = ServiceInit
    /\ \E g \in GridsOf(<<"status">>, QueryValues, MaxRows) :
          grids = [k \in 1..Len(sheets) |-> g]
    /\ apiKey = FALSE
    /\ reqs = [p \in {1} |-> IdleReq]

NextQuery ==
    \/ Receive(QueryInputs)
    \/ OpenDocument
    \/ GetSheetById
    \/ GetSheetRows

SpecQuery == InitQuery /\ [][NextQuery]_vars

-----------------------------------------------------------------------------
(* Reading and updating one row (SpecRows): every two-column sheet, every   *)
(* row index around the data rows, every update mapping.                    *)

RowValues == {S("A"), N(1)}
UpdateValues == {S("X"), S("Y")}
UpdateMaps == Maps({"name", "age", "zip"}, UpdateValues)
RowIds == (0 - 2)..(MaxRows + 1)
Entries == {"route", "service"}

RowInputs ==
    {[NoInput EXCEPT !.impl = impl, !.entry = entry, !.op = "get_row",
                     !.row_id = row_id] :
        impl \in Impls, entry \in Entries, row_id \in RowIds}
    \cup
    {[NoInput EXCEPT !.impl = impl, !.entry = entry, !.op = "update_row",
                     !.row_id = row_id, !.data = data] :
        impl \in Impls, entry \in Entries, row_id \in RowIds,
        data \in UpdateMaps}

InitRows ==
    /\ sheets = TwoSheets
    /\ gc = ServiceInit
    /\ \E g \in GridsOf(<<"name", "age">>, RowValues, MaxRows) :
          grids = [k \in 1..Len(sheets) |-> g]
    /\ apiKey = FALSE
    /\ reqs = [p \in {1} |-> IdleReq]

NextRows ==
    \/ Receive(RowInputs)
    \/ OpenDocument
    \/ GetSheetById
    \/ GetRow
    \/ UpdateRowCheck
    \/ UpdateRowHeaders
    \/ UpdateRowCell
    \/ UpdateRowReread

SpecRows == InitRows /\ [][NextRows]_vars

-----------------------------------------------------------------------------
(* Creating rows and bulk writes (SpecWrite): sheets whose header row has   *)
(* distinct names or repeats one, every batch of up to MaxBatch mappings,   *)
(* every start index around the data rows, a failure at any remote call.    *)

MaxBatch == 2

WriteHeaders == {<<"name", "age">>, <<"name", "name">>}
WriteMaps == Maps({"name", "age"}, UpdateValues) \cup {[k \in {"zip"} |-> S("X")]}
Batches == UNION {[1..n -> WriteMaps] : n \in 0..MaxBatch}
WriteFails == {0} \cup 3..(MaxCalls + 2)

WriteInputs ==
    {[NoInput EXCEPT !.impl = impl, !.op = "update_row", !.row_id = row_id,
                     !.data = data] :
        impl \in Impls, row_id \in 0..(MaxRows - 1), data \in WriteMaps}
    \cup
    {[NoInput EXCEPT !.impl = impl, !.op = "update_rows_bulk",
                     !.row_id = row_id, !.rows = rows, !.failAt = fail] :
        impl \in Impls, row_id \in (0 - 2)..MaxRows, rows \in Batches,
        fail \in WriteFails}
    \cup
    {[NoInput EXCEPT !.impl = impl, !.op = "create_row", !.data = data,
                     !.failAt = fail] :
        impl \in Impls, data \in WriteMaps, fail \in WriteFails}
    \cup
    {[NoInput EXCEPT !.impl = impl, !.op = "create_rows_bulk", !.rows = rows,
                     !.failAt = fail] :
        impl \in Impls, rows \in Batches \ {<< >>}, fail \in WriteFails}

InitWrite ==
    /\ sheets = TwoSheets
    /\ gc = ServiceInit
    /\ \E header \in WriteHeaders :
          \E g \in GridsOf(header, {S("A")}, MaxRows) :
              grids = [k \in 1..Len(sheets) |-> g]
    /\ apiKey = FALSE
    /\ reqs = [p \in {1} |-> IdleReq]

NextWrite ==
    \/ Receive(WriteInputs)
    \/ OpenDocument
    \/ GetSheetById
    \/ UpdateRowCheck
    \/ UpdateRowHeaders
    \/ UpdateRowCell
    \/ UpdateRowReread
    \/ BulkUpdateHeaders
    \/ BulkUpdateCell
    \/ CreateRowHeaders
    \/ CreateRowAppend
    \/ CreateRowReread
    \/ BulkCreateHeaders
    \/ BulkCreateAppend

SpecWrite == InitWrite /\ [][NextWrite]_vars

-----------------------------------------------------------------------------
(* Two create_row requests in flight on the same sheet (SpecRace), each    *)
(* served by its own server process: the service keeps no state and takes  *)
(* no lock, so the processes meet only in the store, one remote call at a  *)
(* time.  (Inside one process a handler never yields between its remote    *)
(* calls: they are synchronous calls of gspread.)                          *)

RaceProcs == {1, 2}
RaceMaps == {[k \in {"name"} |-> v] : v \in UpdateValues}

RaceInputs ==
    {[NoInput EXCEPT !.impl = impl, !.op = "create_row", !.data = data] :
        impl \in Impls, data \in RaceMaps}

InitRace ==
    /\ sheets = TwoSheets
    /\ gc = ServiceInit
    /\ \E g \in GridsOf(<<"name", "age">>, {S("A")}, MaxRows) :
          grids = [k \in 1..Len(sheets) |-> g]
    /\ apiKey = FALSE
    /\ reqs = [p \in RaceProcs |-> IdleReq]

NextRace ==
    \/ Receive(RaceInputs)
    \/ OpenDocument
    \/ GetSheetById
    \/ CreateRowHeaders
    \/ CreateRowAppend
    \/ CreateRowReread

SpecRace == InitRace /\ [][NextRace]_vars

-----------------------------------------------------------------------------
(* Credentials and failing remote calls (SpecFaults): every operation on a *)
(* fixed sheet, with and without an access token or a static key, resolved *)
(* by id, by index and by title, and the failAt-th remote call failing.    *)

AllOps == {"rows", "info", "get_row", "update_row", "create_row",
           "update_rows_bulk", "create_rows_bulk"}
FaultTokens == {"0", "1", "Data", "zzz"}
FaultBatch == <<[name |-> S("X")], [age |-> S("Y")]>>
FaultGrid == <<<<"name", "age">>, <<S("A"), N(1)>>>>
FaultMaps == {[name |-> S("X")], [name |-> S("X"), age |-> S("Y")]}

FaultInputs ==
    {[NoInput EXCEPT !.impl = impl, !.op = op, !.access_token = token,
                     !.sheet_id = tok, !.row_id = row_id,
                     !.failAt = fail, !.data = data,
                     !.rows = FaultBatch] :
        impl \in Impls, op \in AllOps, token \in AccessTokens,
        tok \in FaultTokens, row_id \in {0, Len(FaultGrid) - 1}, data \in FaultMaps,
        fail \in 0..(MaxCalls + 3)}

InitFaults ==
    /\ sheets = TwoSheets
    /\ gc = ServiceInit
    /\ grids = [k \in 1..Len(sheets) |-> FaultGrid]
    /\ apiKey \in BOOLEAN
    /\ reqs = [p \in {1} |-> IdleReq]

NextFaults ==
    \/ Receive(FaultInputs)
    \/ OpenDocument
    \/ GetSheetById
    \/ GetSheetByIndex
    \/ GetSheetByTitle
    \/ GetSheetRows
    \/ GetSheetInfo
    \/ GetRow
    \/ UpdateRowCheck
    \/ UpdateRowHeaders
    \/ UpdateRowCell
    \/ UpdateRowReread
    \/ BulkUpdateHeaders
    \/ BulkUpdateCell
    \/ CreateRowHeaders
    \/ CreateRowAppend
    \/ CreateRowReread
    \/ BulkCreateHeaders
    \/ BulkCreateAppend

SpecFaults == InitFaults /\ [][NextFaults]_vars

-----------------------------------------------------------------------------
(* Listing through the routes (SpecPage): offset and limit given inside,   *)
(* at and outside their bounds, or omitted, on both entry points.          *)

PageOffsets == {0 - 1, 0, 1}
PageLimits == {LimitMin - 1, LimitMin, DefaultLimit, LimitMax, LimitMax + 1}

PageInputs ==
    {[NoInput EXCEPT !.impl = impl, !.op = "rows",
                     !.offset = Param(go, offset, DefaultOffset),
                     !.limit = Param(gl, limit, DefaultLimit)] :
        impl \in Impls, go \in BOOLEAN, gl \in BOOLEAN,
        offset \in PageOffsets, limit \in PageLimits}

InitPage ==
    /\ sheets = TwoSheets
    /\ gc = ServiceInit
    /\ \E g \in GridsOf(<<"status">>, {S("a"), N(1)}, MaxRows) :
          grids = [k \in 1..Len(sheets) |-> g]
    /\ apiKey = FALSE
    /\ reqs = [p \in {1} |-> IdleReq]

NextPage ==
    \/ Receive(PageInputs)
    \/ OpenDocument
    \/ GetSheetById
    \/ GetSheetRows

SpecPage == InitPage /\ [][NextPage]_vars

-----------------------------------------------------------------------------
(* Two requests to one server process (SpecLoop).  The handlers are        *)
(* coroutines on one event loop; a coroutine gives up the loop only at an  *)
(* await that suspends.  The handlers await nothing but the coroutines of  *)
(* the service, and these call gspread synchronously (no await on a remote *)
(* call), so a handler that has started keeps the loop until it returns.   *)

\* The handler of the request has started and not returned.
Running(r) == r.pc \notin {"idle", "done"}

\* The event loop runs one handler at a time.
SingleThread == \A p, q \in Procs : (Running(reqs[p]) /\ Running(reqs[q])) => p = q

LoopInputs ==
    {[NoInput EXCEPT !.impl = impl, !.op = "get_row", !.row_id = row_id] :
        impl \in Impls, row_id \in 0..MaxRows}
    \cup
    {[NoInput EXCEPT !.impl = impl, !.op = "update_row", !.row_id = row_id,
                     !.data = data] :
        impl \in Impls, row_id \in 0..MaxRows, data \in RaceMaps}
    \cup
    {[NoInput EXCEPT !.impl = impl, !.op = op, !.data = [name |-> S("X")],
                     !.rows = FaultBatch] :
        impl \in Impls,
        op \in {"rows", "info", "create_row", "update_rows_bulk", "create_rows_bulk"}}

InitLoop ==
    /\ sheets = TwoSheets
    /\ gc = ServiceInit
    /\ \E g \in GridsOf(<<"name", "age">>, {S("A")}, MaxRows) :
          grids = [k \in 1..Len(sheets) |-> g]
    /\ apiKey = FALSE
    /\ reqs = [p \in {1, 2} |-> IdleReq]

LoopReceive == Receive(LoopInputs) /\ SingleThread'
LoopOpenDocument == OpenDocument /\ SingleThread'
LoopGetSheetById == GetSheetById /\ SingleThread'
LoopGetRow == GetRow /\ SingleThread'
LoopUpdateRowCheck == UpdateRowCheck /\ SingleThread'
LoopUpdateRowHeaders == UpdateRowHeaders /\ SingleThread'
LoopUpdateRowCell == UpdateRowCell /\ SingleThread'
LoopUpdateRowReread == UpdateRowReread /\ SingleThread'
LoopGetSheetRows == GetSheetRows /\ SingleThread'
LoopGetSheetInfo == GetSheetInfo /\ SingleThread'
LoopCreateRowHeaders == CreateRowHeaders /\ SingleThread'
LoopCreateRowAppend == CreateRowAppend /\ SingleThread'
LoopCreateRowReread == CreateRowReread /\ SingleThread'
LoopBulkUpdateHeaders == BulkUpdateHeaders /\ SingleThread'
LoopBulkUpdateCell == BulkUpdateCell /\ SingleThread'
LoopBulkCreateHeaders == BulkCreateHeaders /\ SingleThread'
LoopBulkCreateAppend == BulkCreateAppend /\ SingleThread'

NextLoop ==
    \/ LoopReceive
    \/ LoopOpenDocument
    \/ LoopGetSheetById
    \/ LoopGetRow
    \/ LoopUpdateRowCheck
    \/ LoopUpdateRowHeaders
    \/ LoopUpdateRowCell
    \/ LoopUpdateRowReread
    \/ LoopGetSheetRows
    \/ LoopGetSheetInfo
    \/ LoopCreateRowHeaders
    \/ LoopCreateRowAppend
    \/ LoopCreateRowReread
    \/ LoopBulkUpdateHeaders
    \/ LoopBulkUpdateCell
    \/ LoopBulkCreateHeaders
    \/ LoopBulkCreateAppend

SpecLoop == InitLoop /\ [][NextLoop]_vars

-----------------------------------------------------------------------------
(* Claims about sheet resolution (SpecResolve).                            *)

\* The request has left get_sheet: it holds a sheet or has been answered,
\* and the answer is not get_document's.
Resolved(r) == r.pc \in {"resolved", "done"} /\ r.status \notin {400, 422}

\* No remote call of the request has failed at the transport level.
Unfailed(r) == r.failAt = 0 \/ r.failAt > r.calls

HasId(d, t) == \E k \in 1..Len(d) : d[k].id = t
HasTitle(d, tok) == \E k \in 1..Len(d) : d[k].title = tok

\* C1: an integer token that is some sheet's numeric id resolves to that
\* sheet, whatever sits at the positional index or carries the title.
C1_IdWins ==
    \A p \in Procs :
        LET r == reqs[p]
            t == ParseInt(r.sheet_id)
        IN (Resolved(r) /\ Unfailed(r) /\ t.ok /\ HasId(sheets, t.v))
           => /\ r.pc = "resolved"
              /\ r.ws \in 1..Len(sheets)
              /\ sheets[r.ws].id = t.v

\* A resolution by id where another sheet sits at the index of the token
\* and yet another reading (the title) names a different sheet too.
C1_Witness ==
    \E p \in Procs :
        LET r == reqs[p]
            t == ParseInt(r.sheet_id)
        IN /\ r.pc = "resolved" /\ t.ok /\ HasId(sheets, t.v)
           /\ sheets[r.ws].id = t.v
           /\ t.v >= 0 /\ t.v < Len(sheets) /\ r.ws # t.v + 1
           /\ HasTitle(sheets, r.sheet_id) /\ sheets[r.ws].title # r.sheet_id

\* C2: an integer token that is no sheet's id is looked up as a zero-based
\* index and resolves to the sheet at that index when there is one.
C2_IdMissFallsToIndex ==
    \A p \in Procs :
        LET r == reqs[p]
            t == ParseInt(r.sheet_id)
        IN (Resolved(r) /\ Unfailed(r) /\ t.ok /\ ~HasId(sheets, t.v)
                /\ 0 <= t.v /\ t.v < Len(sheets))
           => r.pc = "resolved" /\ r.ws = t.v + 1

C2_Witness ==
    \E p \in Procs :
        LET r == reqs[p]
            t == ParseInt(r.sheet_id)
        IN /\ r.pc = "resolved" /\ t.ok /\ ~HasId(sheets, t.v)
           /\ r.ws = t.v + 1 /\ r.calls = 3

\* The index lookup finds no sheet for the integer t.
IndexMisses(d, t) == get_worksheet(d, t, "miss").exc # ""

\* C3: an integer token that is no id and no index falls through to the
\* title lookup: a sheet titled with the token is returned.
C3_IndexMissFallsToTitle ==
    \A p \in Procs :
        LET r == reqs[p]
            t == ParseInt(r.sheet_id)
        IN (Resolved(r) /\ Unfailed(r) /\ t.ok /\ ~HasId(sheets, t.v)
                /\ IndexMisses(sheets, t.v) /\ HasTitle(sheets, r.sheet_id))
           => /\ r.pc = "resolved"
              /\ sheets[r.ws].title = r.sheet_id

\* The token matches by none of the three lookups.
Unresolvable(d, tok) ==
    /\ ParseInt(tok).ok => /\ ~HasId(d, ParseInt(tok).v)
                           /\ IndexMisses(d, ParseInt(tok).v)
    /\ ~HasTitle(d, tok)

-----------------------------------------------------------------------------
(* Claims about the query engine (SpecQuery).                              *)

\* The string form of a record's value for a key, "" when the key is absent.
StringForm(rec, key) == IF key \in DOMAIN rec THEN PyStr(rec[key]) ELSE ""

\* The records of the sheet a request works on.
RecordsOf(r) == get_all_records(grids[r.ws]).recs

\* The records every filter key of which equals the string form exactly.
Kept(records, query) ==
    LET Keep(rec) == \A key \in DOMAIN query : StringForm(rec, key) = query[key]
    IN SelectSeq(records, Keep)

\* Positions offset .. offset+limit-1 (zero-based) of a sequence.
Window(seq, offset, limit) ==
    [k \in 1..Max(0, Min(Len(seq), offset + limit) - offset) |-> seq[offset + k]]

ListingDone(r) == r.pc = "done" /\ r.op = "rows" /\ r.ws # 0

ValidPage(r) == r.offset >= 0 /\ LimitMin <= r.limit /\ r.limit <= LimitMax

\* C5: the listing is the window [offset, offset+limit) of the filtered
\* sequence, in order; past the end it is empty and still a success.
C5_FilterThenSlice ==
    \A p \in Procs :
        LET r == reqs[p]
            filtered == Kept(RecordsOf(r), r.query)
        IN (ListingDone(r) /\ Unfailed(r) /\ ValidPage(r))
           => /\ r.status = 200
              /\ r.body = Window(filtered, r.offset, r.limit)
              /\ r.offset >= Len(filtered) => r.body = << >>

\* A one-record page of a filter that drops the first row: the page holds
\* the second row, which the same window of the unfiltered rows would not.
C5_Witness ==
    \E p \in Procs :
        LET r == reqs[p]
            filtered == Kept(RecordsOf(r), r.query)
        IN /\ ListingDone(r) /\ r.status = 200
           /\ r.offset = 0 /\ r.limit = 1
           /\ Len(filtered) = 1 /\ Len(RecordsOf(r)) = 2
           /\ r.body = <<RecordsOf(r)[2]>>
           /\ r.body # <<RecordsOf(r)[1]>>

\* A page past the end of the filtered sequence.
C5_WitnessPastEnd ==
    \E p \in Procs :
        LET r == reqs[p]
        IN /\ ListingDone(r) /\ r.status = 200 /\ r.body = << >>
           /\ Len(Kept(RecordsOf(r), r.query)) = 1 /\ r.offset = 2

\* C6: with the whole filtered sequence on one page, a record is returned
\* iff every filter key's string form equals the expected value exactly;
\* {status: "1"} rejects the empty string and accepts the number 1, and a
\* value that only contains or case-folds to the expected one is rejected.
C6_ExactMatch ==
    \A p \in Procs :
        LET r == reqs[p]
            records == RecordsOf(r)
        IN (ListingDone(r) /\ Unfailed(r) /\ r.offset = 0
                /\ r.limit >= Len(records))
           => /\ r.body = Kept(records, r.query)
              /\ ("status" \in DOMAIN r.query /\ r.query["status"] = "1")
                 => /\ \A k \in 1..Len(r.body) : r.body[k]["status"] = N(1)
                    /\ DOMAIN r.query = {"status"}
                       => \A k \in 1..Len(records) :
                             records[k]["status"] = N(1)
                             => \E m \in 1..Len(r.body) : r.body[m] = records[k]
              /\ ("status" \in DOMAIN r.query /\ r.query["status"] = "a")
                 => \A k \in 1..Len(r.body) : r.body[k]["status"] = S("a")

\* {status: "1"} over rows holding "" and 1: only the number is kept.
C6_Witness ==
    \E p \in Procs :
        LET r == reqs[p]
            records == RecordsOf(r)
        IN /\ ListingDone(r) /\ r.status = 200 /\ r.offset = 0
           /\ r.limit = LimitMax
           /\ r.query = [k \in {"status"} |-> "1"]
           /\ Len(records) = 2
           /\ records[1]["status"] = S("") /\ records[2]["status"] = N(1)
           /\ r.body = <<records[2]>>

-----------------------------------------------------------------------------
(* Claims about get_row and update_row (SpecRows).                         *)

\* The request has reached the service function for its op and finished.
ServiceDone(r, op) == r.pc = "done" /\ r.op = op /\ r.ws # 0

\* The column (1-based) of a header name in a header row of unique names.
ColumnOf(headers, h) == CHOOSE k \in 1..Len(headers) : headers[k] = h

\* The record of a physical row of a grid.
RecordAt(grid, row) ==
    [h \in Range(grid[1]) |-> grid[row][ColumnOf(grid[1], h)]]

InRange(i, grid) == 0 <= i /\ i < Len(grid) - 1

\* C7: get_row returns the record of physical row i + 2 when
\* 0 <= i < record count and answers 404 without a record for every other
\* i, in both service implementations.
C7_GetRow ==
    \A p \in Procs :
        LET r == reqs[p]
            grid == grids[r.ws]
        IN (ServiceDone(r, "get_row") /\ Unfailed(r))
           => IF InRange(r.row_id, grid)
              THEN r.status = 200 /\ r.body = <<RecordAt(grid, r.row_id + 2)>>
              ELSE r.status = 404 /\ r.body = << >>

\* C8: update_row on an index outside [0, record count) answers 404 and
\* writes no cell, in both service implementations.
C8_UpdateRowOutOfRange ==
    \A p \in Procs :
        LET r == reqs[p]
        IN (ServiceDone(r, "update_row") /\ Unfailed(r)
                /\ ~InRange(r.row_id, r.pre[r.ws]))
           => r.status = 404 /\ r.writes = << >> /\ grids = r.pre

\* The cell writes update one is to issue: one per header name in u.
PlannedWrites(headers, i, u) ==
    {[row |-> i + 2, col |-> ColumnOf(headers, h), value |-> u[h]] :
        h \in Range(headers) \cap DOMAIN u}

\* The record with the values of u for the keys it has.
Merged(old, u) == [h \in DOMAIN old |-> IF h \in DOMAIN u THEN u[h] ELSE old[h]]

\* C9: update one on a valid index (header names distinct) writes exactly the cells of the header
\* names in u, each once, returns the old record merged with u as read
\* back from the sheet, and leaves every other row and sheet as it was.
C9_UpdateRow ==
    \A p \in Procs :
        LET r == reqs[p]
            before == r.pre[r.ws]
            after == grids[r.ws]
            old == RecordAt(before, r.row_id + 2)
        IN (ServiceDone(r, "update_row") /\ Unfailed(r)
                /\ InRange(r.row_id, before) /\ IsUnique(before[1]))
           => /\ r.status = 200
              /\ Range(r.writes) = PlannedWrites(before[1], r.row_id, r.data)
              /\ Len(r.writes) = Cardinality(Range(before[1]) \cap DOMAIN r.data)
              /\ r.body = <<Merged(old, r.data)>>
              /\ r.body = <<RecordAt(after, r.row_id + 2)>>
              /\ Len(after) = Len(before)
              /\ \A k \in 1..Len(after) : k # r.row_id + 2 => after[k] = before[k]
              /\ \A k \in 1..Len(grids) : k # r.ws => grids[k] = r.pre[k]

\* PUT on the second row of a two-row sheet with {"age": ..., "zip": ...}:
\* one write, to the age cell of physical row 3.
C9_Witness ==
    \E p \in Procs :
        LET r == reqs[p]
        IN /\ ServiceDone(r, "update_row") /\ r.status = 200
           /\ r.row_id = 1 /\ DOMAIN r.data = {"age", "zip"}
           /\ r.writes = <<[row |-> 3, col |-> 2, value |-> r.data["age"]]>>
           /\ grids[r.ws][3][2] = r.data["age"]
           /\ r.pre[r.ws][3][2] # r.data["age"]
           /\ r.body[1]["name"] = r.pre[r.ws][3][1]

\* None of the keys of u is a header name.
NoHeaderKey(headers, u) == Range(headers) \cap DOMAIN u = {}

\* C10: update one whose mapping has no header key writes nothing, leaves
\* the sheet as it was, and still re-reads the row and returns it (five
\* remote calls: open, the id lookup, the row check, the header read and
\* the re-read).
C10_NoMatchingKey ==
    \A p \in Procs :
        LET r == reqs[p]
            before == r.pre[r.ws]
        IN (ServiceDone(r, "update_row") /\ Unfailed(r)
                /\ InRange(r.row_id, before) /\ IsUnique(before[1])
                /\ NoHeaderKey(before[1], r.data))
           => /\ r.status = 200
              /\ r.writes = << >>
              /\ grids = r.pre
              /\ r.body = <<RecordAt(grids[r.ws], r.row_id + 2)>>
              /\ r.calls = 5

C10_Witness ==
    \E p \in Procs :
        LET r == reqs[p]
        IN /\ ServiceDone(r, "update_row") /\ r.status = 200
           /\ DOMAIN r.data = {"zip"} /\ r.row_id = 1
           /\ r.writes = << >> /\ grids = r.pre
           /\ r.body = <<RecordAt(grids[r.ws], 3)>>

C10_WitnessEmpty ==
    \E p \in Procs :
        LET r == reqs[p]
        IN /\ ServiceDone(r, "update_row") /\ r.status = 200
           /\ r.data = NoRecord /\ r.writes = << >> /\ r.calls = 5

-----------------------------------------------------------------------------
(* Claims about creating rows and bulk writes (SpecWrite).                 *)

\* The leftmost column (1-based) that carries the header name h.
FirstColumn(headers, h) ==
    CHOOSE k \in 1..Len(headers) :
        headers[k] = h /\ \A m \in 1..(k - 1) : headers[m] # h

\* C11: update one and update bulk write a value only to the leftmost
\* column of its header name; a later column of the same name is never
\* written.
C11_FirstColumnOnly ==
    \A p \in Procs :
        LET r == reqs[p]
        IN r.op \in {"update_row", "update_rows_bulk"}
           => \A k \in 1..Len(r.writes) :
                 r.writes[k].col = FirstColumn(r.headers, r.headers[r.writes[k].col])

\* The record create one is to return for the mapping d.
Created(headers, d) == [h \in Range(headers) |-> DictGet(d, h)]

\* C12: create one, for every header row and every mapping d, appends one
\* row after the last row and returns the record holding d[h] for the
\* headers in d and "" for the others; that record is the last one of the
\* sheet afterwards, and the rows that were there are unchanged.
C12_CreateRoundTrip ==
    \A p \in Procs :
        LET r == reqs[p]
            before == r.pre[r.ws]
            after == grids[r.ws]
        IN (ServiceDone(r, "create_row") /\ Unfailed(r))
           => /\ r.status = 200
              /\ Len(r.appends) = 1 /\ Len(r.appends[1].values) = 1
              /\ Len(after) = Len(before) + 1
              /\ r.body = <<Created(before[1], r.data)>>
              /\ r.body = <<ToRecord(after[1], after[Len(after)])>>
              /\ \A k \in 1..Len(before) : after[k] = before[k]

\* The cell writes update bulk is to issue for start index s and the
\* mappings ms: for the i-th mapping (from 0), one per column whose header
\* is a key of it, on physical row s + i + 2.
PlannedBulkWrites(headers, s, ms) ==
    {[row |-> s + i + 2, col |-> j, value |-> ms[i + 1][headers[j]]] :
        <<i, j>> \in {c \in (0..(Len(ms) - 1)) \X (1..Len(headers)) :
                        headers[c[2]] \in DOMAIN ms[c[1] + 1]}}

\* The value a planned write puts on a cell, or the cell's value in the
\* grid `before` (blank below its last row).
CellAfter(before, planned, k, c) ==
    IF \E w \in planned : w.row = k /\ w.col = c
    THEN (CHOOSE w \in planned : w.row = k /\ w.col = c).value
    ELSE IF k <= Len(before) THEN before[k][c] ELSE S("")

\* C14: update bulk from start index s >= 0 writes, for every i, the header
\* keys of m_i to physical row s + i + 2 and nothing else, be the row
\* within the data rows or below them, and never answers 404.
C14_BulkUpdateRows ==
    \A p \in Procs :
        LET r == reqs[p]
            before == r.pre[r.ws]
            after == grids[r.ws]
            planned == PlannedBulkWrites(before[1], r.row_id, r.rows)
        IN (r.op = "update_rows_bulk" /\ r.ws # 0)
           => /\ r.status # 404
              /\ (r.pc = "done" /\ Unfailed(r) /\ r.row_id >= 0)
                 => /\ r.status = 200
                    /\ Range(r.writes) = planned
                    /\ Len(r.writes) = Cardinality(planned)
                    /\ \A k \in 1..Len(after) : \A c \in 1..Len(after[k]) :
                          after[k][c] = CellAfter(before, planned, k, c)
                    /\ \A w \in planned : w.row <= Len(after)
                    /\ Len(after) >= Len(before)

\* Two mappings written from the first row below the data of a one-row
\* sheet: rows 3 and 4 did not exist and hold the values afterwards.
C14_Witness ==
    \E p \in Procs :
        LET r == reqs[p]
            before == r.pre[r.ws]
            after == grids[r.ws]
        IN /\ ServiceDone(r, "update_rows_bulk") /\ r.status = 200
           /\ Len(before) = 2 /\ r.row_id = 1 /\ Len(r.rows) = 2
           /\ before[1] = <<"name", "age">>
           /\ r.rows[1] = [name |-> S("X")] /\ r.rows[2] = [age |-> S("Y")]
           /\ r.writes = <<[row |-> 3, col |-> 1, value |-> S("X")],
                           [row |-> 4, col |-> 2, value |-> S("Y")]>>
           /\ Len(after) = 4 /\ after[3][1] = S("X") /\ after[4][2] = S("Y")

\* The row of a mapping m under a header row: m[h] per header h in header
\* order, "" where m has no h.
RowOf(headers, m) ==
    [j \in 1..Len(headers) |-> IF headers[j] \in DOMAIN m THEN m[headers[j]] ELSE S("")]

\* C15: create bulk issues one append carrying one row per mapping in
\* input order, each row in header order with "" for missing headers, and
\* no other write; the sheet is then its previous rows followed by these.
C15_BulkCreateOneAppend ==
    \A p \in Procs :
        LET r == reqs[p]
            before == r.pre[r.ws]
            after == grids[r.ws]
        IN (ServiceDone(r, "create_rows_bulk") /\ Unfailed(r))
           => /\ r.status = 200
              /\ Len(r.appends) = 1 /\ r.writes = << >>
              /\ r.appends[1].at = Len(before) + 1
              /\ Len(r.appends[1].values) = Len(r.rows)
              /\ \A k \in 1..Len(r.rows) :
                    r.appends[1].values[k] = RowOf(before[1], r.rows[k])
              /\ after = before \o r.appends[1].values

\* Two mappings on a one-row sheet: rows 3 and 4 are [X, ""] and ["", Y].
C15_Witness ==
    \E p \in Procs :
        LET r == reqs[p]
            after == grids[r.ws]
        IN /\ ServiceDone(r, "create_rows_bulk") /\ r.status = 200
           /\ r.rows = <<[name |-> S("X")], [age |-> S("Y")]>>
           /\ Len(r.pre[r.ws]) = 2 /\ Len(after) = 4
           /\ Len(r.appends) = 1
           /\ after[1] = <<"name", "age">>
           /\ after[3] = <<S("X"), S("")>> /\ after[4] = <<S(""), S("Y")>>

BulkOps == {"update_rows_bulk", "create_rows_bulk"}

C16_WitnessCreate ==
    \E p \in Procs :
        LET r == reqs[p]
        IN /\ ServiceDone(r, "create_rows_bulk") /\ r.status = 200
           /\ r.impl = "app" /\ Len(r.rows) = 2 /\ Len(r.pre[r.ws]) = 1
           /\ r.body[1].affected_rows = N(2)

\* The failAt-th remote call of a bulk request was a write (the calls
\* before it: open_by_key, the sheet lookup, row_values) and has failed.
WriteFailed(r) == r.op \in BulkOps /\ r.failAt >= 4 /\ r.failAt <= r.calls

\* C19: once a write of a bulk request has failed the request is over: no
\* further remote call is made, the answer is 500 with no success flag and
\* no count, and a bulk update that answers 200 has issued every write.
C19_BulkFailure ==
    \A p \in Procs :
        LET r == reqs[p]
        IN /\ WriteFailed(r)
              => /\ r.pc = "done" /\ r.status = 500 /\ r.body = << >>
                 /\ r.calls = r.failAt
                 /\ Len(r.writes) + Len(r.appends) = r.failAt - 4
                 /\ r.op = "create_rows_bulk" => grids = r.pre
           /\ (r.pc = "done" /\ r.op = "update_rows_bulk" /\ r.status = 200)
              => /\ Unfailed(r)
                 /\ Len(r.writes) =
                       Cardinality(PlannedBulkWrites(r.headers, r.row_id, r.rows))

\* The second of three writes of a bulk update fails: one cell is written,
\* the third write is never issued, the answer is 500.
C19_Witness ==
    \E p \in Procs :
        LET r == reqs[p]
        IN /\ r.op = "update_rows_bulk" /\ r.pc = "done" /\ r.status = 500
           /\ r.failAt = 5 /\ r.calls = 5 /\ Len(r.writes) = 1
           /\ Cardinality(PlannedBulkWrites(r.headers, r.row_id, r.rows)) = 3
           /\ grids # r.pre

\* The one append of a bulk create fails.
C19_WitnessCreate ==
    \E p \in Procs :
        LET r == reqs[p]
        IN /\ r.op = "create_rows_bulk" /\ r.pc = "done" /\ r.status = 500
           /\ r.failAt = 4 /\ r.calls = 4 /\ Len(r.rows) = 2
           /\ r.appends = << >> /\ grids = r.pre

-----------------------------------------------------------------------------
(* Claims about concurrent requests (SpecRace).                            *)

\* Request o appended its row after r appended its own and before r read
\* the sheet again, and no row came after o's.
AppendedBetween(r, o) ==
    /\ r.appends # << >> /\ o.appends # << >> /\ o.ws = r.ws
    /\ r.appends[1].at < o.appends[1].at
    /\ o.appends[1].at = Len(r.all_records) + 1

\* C13: a create one whose re-read comes after another request's append
\* returns that request's row, not the row it appended itself.
C13_RereadReturnsLatestRow ==
    \A p, q \in Procs :
        LET r == reqs[p]
            o == reqs[q]
        IN (p # q /\ ServiceDone(r, "create_row") /\ r.status = 200
                /\ AppendedBetween(r, o))
           => r.body = <<ToRecord(r.headers, o.appends[1].values[1])>>

\* Two creates with different values: the first to append answers with
\* the row of the second.
C13_Witness ==
    \E p, q \in Procs :
        LET r == reqs[p]
            o == reqs[q]
        IN /\ p # q /\ ServiceDone(r, "create_row") /\ r.status = 200
           /\ AppendedBetween(r, o)
           /\ r.data # o.data
           /\ r.body = <<Created(r.headers, o.data)>>
           /\ r.body # <<Created(r.headers, r.data)>>
           /\ grids[r.ws][r.appends[1].at] = RowData(r.headers, r.data)

-----------------------------------------------------------------------------
(* Claims about credentials and failures (SpecFaults).                     *)

\* The request was taken in and has been through get_document.
Opened(r) == r.pc \notin {"idle", "open"} /\ r.status # 422

\* C17: a request with no access token, while no static key is configured,
\* is answered 401 on every endpoint.
C17_MissingCredentials401 ==
    \A p \in Procs :
        LET r == reqs[p]
        IN (Opened(r) /\ ~Truthy(r.access_token) /\ ~apiKey)
           => r.pc = "done" /\ r.status = 401

\* A remote call after open_by_key has failed at the transport level.
FailedAfterOpen(r) == r.pc = "done" /\ r.failAt >= 2 /\ r.failAt <= r.calls

\* C18: a transport failure of a remote call, be it one of get_sheet or a
\* read, write or re-read of a core operation, is answered 500.
C18_UnclassifiedIs500 ==
    \A p \in Procs :
        LET r == reqs[p]
        IN FailedAfterOpen(r) => r.status = 500

-----------------------------------------------------------------------------
(* Claims about the listing routes (SpecPage).                             *)

\* C20: a listing that get_sheet_rows has served, on either entry point
\* (app/api/sheets.py and main.py), was sliced with offset >= 0 and
\* 1 <= limit <= 1000; a request outside these bounds never gets there.
C20_PaginationBounds ==
    \A p \in Procs :
        LET r == reqs[p]
        IN (ListingDone(r) /\ r.entry = "route") => ValidPage(r)

\* C21: the client of a request is built from its access token whenever it
\* carries one, a configured static key notwithstanding; it is built from
\* the static key exactly when the token is absent or empty and a key is
\* configured.
C21_CredentialSelection ==
    \A p \in Procs :
        LET r == reqs[p]
        IN Opened(r)
           => /\ Truthy(r.access_token) => r.client = "oauth"
              /\ r.client = "api_key" <=> (r.access_token \in {NoToken, ""} /\ apiKey)
              /\ r.client = "" <=> (r.access_token \in {NoToken, ""} /\ ~apiKey)

\* A token sent while a static key is configured: the token is used.
C21_Witness ==
    \E p \in Procs :
        LET r == reqs[p]
        IN /\ Opened(r) /\ r.access_token = "ya29" /\ apiKey
           /\ r.client = "oauth" /\ r.pc = "resolved"

\* An empty token header with a static key configured: the key is used.
C21_WitnessEmptyToken ==
    \E p \in Procs :
        LET r == reqs[p]
        IN /\ Opened(r) /\ r.access_token = "" /\ apiKey
           /\ r.client = "api_key" /\ r.pc = "resolved"

\* A remote call of the request has failed at the transport level.
CallFailed(r) == r.failAt >= 1 /\ r.failAt <= r.calls

\* C22: the remote call that fails is the last one the request makes, and
\* the request is over with an error status; no call is made twice.
C22_NoRetries ==
    \A p \in Procs :
        LET r == reqs[p]
        IN CallFailed(r)
           => /\ r.pc = "done"
              /\ r.calls = r.failAt
              /\ r.status \in {400, 404, 500}
              /\ r.body = << >>

\* update one whose header read (the fourth call) fails: 500, and neither
\* a cell write nor the re-read follows.
C22_Witness ==
    \E p \in Procs :
        LET r == reqs[p]
        IN /\ r.op = "update_row" /\ CallFailed(r) /\ r.failAt = 4
           /\ r.sheet_id = "0" /\ r.all_records # << >> /\ r.headers = << >>
           /\ r.pc = "done" /\ r.status = 500 /\ r.calls = 4
           /\ r.writes = << >> /\ grids = r.pre

-----------------------------------------------------------------------------
(* Claims about requests to one server process (SpecLoop).                 *)

\* The handler of request q can be started in the current state.
CanStart(q) ==
    ENABLED (/\ reqs[q].pc = "idle"
             /\ \E inp \in LoopInputs : reqs' = [reqs EXCEPT ![q] = Accept(inp, grids)]
             /\ SingleThread'
             /\ UNCHANGED <<sheets, grids, apiKey, gc>>)

\* C23: while a request is between two of its remote calls, another
\* request to the same process can be scheduled.
C23_NonBlocking ==
    \A p, q \in Procs :
        (p # q /\ Running(reqs[p]) /\ reqs[q].pc = "idle") => CanStart(q)

\* A step of request p reads the sheet, writes to it or builds the answer.
Touches(r, r2) ==
    \/ r2.all_records # r.all_records \/ r2.headers # r.headers
    \/ r2.writes # r.writes \/ r2.appends # r.appends \/ r2.body # r.body

Writes(r, r2) == Len(r2.writes) > Len(r.writes) \/ Len(r2.appends) > Len(r.appends)

\* What a step of the system may do to request p.
CallOrderStep(p) ==
    LET r == reqs[p]
        r2 == reqs'[p]
    IN /\ (r.pc = "idle" /\ r2.pc # "idle")
          => r2.ws = 0 /\ r2.client = "" /\ r2.calls = 0
       /\ Touches(r, r2) => (r.client # "" /\ r.ws # 0 /\ r.calls >= 2)
       /\ Writes(r, r2) => r.headers # << >>
       /\ (r.op \in {"update_row", "create_row"} /\ r2.status = 200 /\ r.status # 200)
          => /\ r2.calls = r.calls + 1
             /\ ~Writes(r, r2)
             /\ r.op = "create_row" => r.appends # << >>
       /\ r.pc = "done" => r2 = r

\* C24: every request opens the document and resolves the sheet itself
\* before it reads or writes the sheet, reads the header row before its
\* first write, and in update one and create one makes the re-read for the
\* answer after its last write.
C24_CallOrder == [][\A p \in Procs : CallOrderStep(p)]_vars

\* Two update one requests served one after the other by the same process:
\* each made its own six calls (open, lookup, check, headers, write,
\* re-read).
C24_Witness ==
    \E p, q \in Procs :
        /\ p # q
        /\ \A x \in {p, q} :
              /\ ServiceDone(reqs[x], "update_row") /\ reqs[x].status = 200
              /\ reqs[x].calls = 6 /\ Len(reqs[x].writes) = 1
              /\ reqs[x].client = "oauth"

\* What the client sent.
InputOf(r) ==
    <<r.impl, r.op, r.access_token, r.sheet_id, r.row_id, r.data, r.rows,
      r.entry, r.offset, r.limit, r.query>>

\* The answer the client got.
ResultOf(r) == <<r.status, r.body, r.detail>>

\* C25: the field of the shared service keeps the value the constructor
\* gave it, and two requests served by the same instance with the same
\* inputs against the same store contents get the same answer.
C25_StatelessService ==
    /\ gc = ServiceInit
    /\ \A p, q \in Procs :
          (/\ reqs[p].pc = "done" /\ reqs[q].pc = "done"
           /\ InputOf(reqs[p]) = InputOf(reqs[q])
           /\ reqs[p].pre = reqs[q].pre)
          => ResultOf(reqs[p]) = ResultOf(reqs[q])

\* Two requests with the same inputs were served one after the other with
\* the same store contents, and both were answered 200 with a row.
C25_Witness ==
    \E p, q \in Procs :
        /\ p # q
        /\ reqs[p].pc = "done" /\ reqs[q].pc = "done"
        /\ InputOf(reqs[p]) = InputOf(reqs[q])
        /\ reqs[p].pre = reqs[q].pre
        /\ reqs[p].op = "get_row" /\ reqs[p].status = 200
        /\ reqs[p].client = "oauth" /\ gc = ServiceInit

-----------------------------------------------------------------------------
(* Update one on a sheet that another writer edits (SpecGap): between any  *)
(* two calls of the request a data row of a sheet may be deleted.          *)

GapInputs ==
    {[NoInput EXCEPT !.impl = impl, !.op = "update_row", !.row_id = row_id,
                     !.data = data] :
        impl \in Impls, row_id \in 0..MaxRows,
        data \in FaultMaps \cup {[zip |-> S("X")]}}

\* The grid without its physical row `row`; the rows below move up.
delete_row(grid, row) == SubSeq(grid, 1, row - 1) \o SubSeq(grid, row + 1, Len(grid))

\* Another writer of the spreadsheet deletes a data row.
DeleteRow ==
    \E k \in 1..Len(grids) :
        \E row \in 2..Len(grids[k]) :
            /\ grids' = [grids EXCEPT ![k] = delete_row(@, row)]
            /\ UNCHANGED <<sheets, apiKey, gc, reqs>>

InitGap ==
    /\ sheets = TwoSheets
    /\ gc = ServiceInit
    /\ \E g \in GridsOf(<<"name", "age">>, {S("A")}, MaxRows) :
          grids = [k \in 1..Len(sheets) |-> g]
    /\ apiKey = FALSE
    /\ reqs = [p \in {1} |-> IdleReq]

NextGap ==
    \/ Receive(GapInputs)
    \/ OpenDocument
    \/ GetSheetById
    \/ UpdateRowCheck
    \/ UpdateRowHeaders
    \/ UpdateRowCell
    \/ UpdateRowReread
    \/ DeleteRow

SpecGap == InitGap /\ [][NextGap]_vars

-----------------------------------------------------------------------------
(* Claims about the read operations (SpecFaults).                          *)

ReadOps == {"rows", "info", "get_row"}

\* C26: the sheet lookup and the operations that list rows, describe the
\* sheet and read one row issue no write: whether they succeed or fail, the
\* cells of every sheet and the sheet list are what they were when the
\* request arrived.
C26_ReadOnly ==
    \A p \in Procs :
        LET r == reqs[p]
        IN (r.pc # "idle" /\ (r.op \in ReadOps \/ r.ws = 0))
           => /\ grids = r.pre
              /\ sheets = TwoSheets
              /\ r.writes = << >> /\ r.appends = << >>

\* A row was read and answered.
C26_Witness ==
    \E p \in Procs :
        /\ ServiceDone(reqs[p], "get_row") /\ reqs[p].status = 200
        /\ reqs[p].body # << >> /\ grids = reqs[p].pre

\* A listing failed at its read.
C26_WitnessFailure ==
    \E p \in Procs :
        /\ ServiceDone(reqs[p], "rows") /\ reqs[p].status = 500
        /\ reqs[p].ws # 0 /\ grids = reqs[p].pre

-----------------------------------------------------------------------------
(* Claims about the cells the updates write (SpecWrite).                   *)

\* C27: no request that an entry point accepts writes the header row:
\* every cell write of update one and update bulk is at a physical row of
\* 2 or more and a column of 1 or more.
C27_HeaderProtected ==
    \A p \in Procs :
        LET r == reqs[p]
        IN (r.op \in {"update_row", "update_rows_bulk"} /\ r.entry = "route")
           => \A k \in 1..Len(r.writes) :
                 r.writes[k].row >= 2 /\ r.writes[k].col >= 1

-----------------------------------------------------------------------------
(* Claims about a failure inside update one (SpecFaults).                  *)

\* A cell write of update one has failed: the header row was read, fewer
\* writes were made than the mapping calls for, and the last call made is
\* the one that fails.
CellWriteFailed(r) ==
    /\ r.op = "update_row" /\ r.pc = "done" /\ r.headers # << >>
    /\ r.failAt = r.calls
    /\ Len(r.writes) < Cardinality(PlannedWrites(r.headers, r.row_id, r.data))

\* C28: when the k-th cell write of update one fails the answer is 500 and
\* nothing is undone: the k-1 cells written before it hold their new
\* values, in column order, and every other cell, the columns not yet
\* written included, holds the value it had.
C28_NoRollback ==
    \A p \in Procs :
        LET r == reqs[p]
            before == r.pre[r.ws]
            after == grids[r.ws]
            planned == PlannedWrites(r.headers, r.row_id, r.data)
        IN CellWriteFailed(r)
           => /\ r.status = 500 /\ r.body = << >>
              /\ Range(r.writes) \subseteq planned
              /\ \A w \in planned :
                    w \in Range(r.writes)
                    <=> Cardinality({v \in planned : v.col < w.col}) < Len(r.writes)
              /\ Len(after) = Len(before)
              /\ \A k \in 1..Len(after) :
                    \A c \in 1..Len(after[k]) :
                        after[k][c] = CellAfter(before, Range(r.writes), k, c)

\* The second of two cell writes failed: the first column holds the new
\* value, the second its old one.
C28_Witness ==
    \E p \in Procs :
        LET r == reqs[p]
        IN /\ CellWriteFailed(r) /\ r.status = 500
           /\ Len(r.writes) = 1
           /\ grids[r.ws][2] = <<S("X"), N(1)>>
           /\ r.pre[r.ws][2] = <<S("A"), N(1)>>

-----------------------------------------------------------------------------
(* Claims about update one on a sheet another writer edits (SpecGap).      *)

\* The re-read of request p is made on a sheet whose record count no longer
\* covers the index that the check found in range.
RereadOutOfRange(p) ==
    LET r == reqs[p]
    IN /\ r.op = "update_row" /\ r.pc = "reread"
       /\ reqs'[p].pc = "done"
       /\ r.row_id >= 0 /\ r.row_id < Len(r.all_records)
       /\ r.row_id >= Len(grids[r.ws]) - 1

\* C29: when rows were deleted between the check of update one and its
\* re-read so that the index is out of range at the re-read, the answer is
\* 404 with no body, although every cell write of the request was made, and
\* the store is left as it is.
C29_CheckRereadGap ==
    [][\A p \in Procs :
          RereadOutOfRange(p)
          => /\ reqs'[p].status = 404 /\ reqs'[p].body = << >>
             /\ Range(reqs'[p].writes)
                   = PlannedWrites(reqs[p].headers, reqs[p].row_id, reqs[p].data)
             /\ grids' = grids]_vars

\* Update one of the second of two records answered 404 after it had
\* written: the first record was deleted after the write, and the value
\* written is in the sheet.
C29_Witness ==
    \E p \in Procs :
        LET r == reqs[p]
        IN /\ ServiceDone(r, "update_row") /\ r.status = 404
           /\ r.row_id = 1 /\ Len(r.all_records) = 2
           /\ Len(r.writes) >= 1
           /\ Len(grids[r.ws]) = 2 /\ grids[r.ws][2][1] = S("X")

-----------------------------------------------------------------------------
(* Claims about the statuses that reach the client (SpecFaults).           *)

\* C30: the 404 of the row check of get_row and update_row, the 404 of
\* get_sheet and the 400 of get_document are the statuses the client gets:
\* neither get_worksheet_from_ids nor a route handler turns them into 500.
C30_StatusPreserved ==
    \A p \in Procs :
        LET r == reqs[p]
        IN /\ (/\ r.pc = "done" /\ r.op \in {"get_row", "update_row"}
               /\ r.ws # 0 /\ Unfailed(r)
               /\ r.row_id >= Len(r.pre[r.ws]) - 1)
              => r.status = 404 /\ r.detail.msg = "Row not found"
           /\ (r.pc = "done" /\ r.client # "" /\ r.failAt # 1 /\ r.ws = 0)
              => r.status = 404 /\ r.detail.msg = "Sheet not found"
           /\ (r.pc = "done" /\ r.pre # << >> /\ (r.client = "" \/ r.failAt = 1))
              => r.status = 400 /\ r.detail.msg = "Cannot access Google document"

\* Update one of a row index equal to the record count was answered 404.
C30_Witness ==
    \E p \in Procs :
        LET r == reqs[p]
        IN /\ ServiceDone(r, "update_row") /\ Unfailed(r)
           /\ r.row_id = Len(r.pre[r.ws]) - 1
           /\ r.status = 404 /\ r.calls = 3

\* A token no lookup matches was answered 404 by get_sheet.
C30_WitnessSheet ==
    \E p \in Procs :
        LET r == reqs[p]
        IN /\ r.pc = "done" /\ r.client = "oauth" /\ r.ws = 0
           /\ r.sheet_id = "zzz" /\ r.status = 404

\* A failed open_by_key was answered 400 by get_document.
C30_WitnessDocument ==
    \E p \in Procs :
        LET r == reqs[p]
        IN /\ r.pc = "done" /\ r.failAt = 1 /\ r.calls = 1
           /\ r.client = "oauth" /\ r.status = 400

====
